---- MODULE Spec2Model ----
\* Model of the fsntest runner (src/bin.js): the registry filled by it() and the
\* four hook setters, describe()'s RxJS pipeline, and executeJustCallback(),
\* which turns one callback invocation into an observable of results.
\*
\* JavaScript runs each task to completion.  The synchronous part of a task is
\* kept in todo, the calls still to be made, innermost first; a promise
\* settling or an asynchronous observable event starts a new task and is only
\* possible when todo is empty.
EXTENDS Integers, Sequences, FiniteSets, TLC

\* ---------------------------------------------------------------- bounds
MaxIt == 2      \* it() calls made by testDef
MaxItOrder == 3 \* it() calls made by testDef when every callback is synchronous
MaxHooks == 2   \* calls of beforeAll, beforeEach, afterAll, afterEach made by testDef
MaxEmit == 2    \* values the observables returned by callbacks emit in one run
MaxObs == 1     \* callbacks that return an observable in one run
MaxItHooks == 1 \* it() calls made by testDef when the hooks are what is looked at
MaxDay == 1      \* days after the first on which a Date may lie
MaxChunks == 3   \* chunks tsc writes
MaxDescribes == 2 \* describe() calls in one process
MaxLate == 1     \* registrations made while a run is in progress

\* --------------------------------------------------------------- values
Undefined == 0
Absent == <<>>              \* an errorStr that was never assigned
Missing == "missing"        \* a property the object does not have
Check == "check"            \* chalk.green of the check mark
Cross == "cross"            \* chalk.red of the cross mark

TestNames == {"a", "2", "10", "01"}

\* The names used when the callbacks may also be asynchronous.
RunNames == {"a", "2"}

\* The characters of each test name.
NameChars == [n \in TestNames |->
    CASE n = "a" -> <<"a">>
      [] n = "2" -> <<"2">>
      [] n = "10" -> <<"1", "0">>
      [] n = "01" -> <<"0", "1">>]

Digits == {"0", "1", "2", "3", "4", "5", "6", "7", "8", "9"}

DigitVal(c) == CASE c = "0" -> 0 [] c = "1" -> 1 [] c = "2" -> 2 [] c = "3" -> 3
                 [] c = "4" -> 4 [] c = "5" -> 5 [] c = "6" -> 6 [] c = "7" -> 7
                 [] c = "8" -> 8 [] c = "9" -> 9

RECURSIVE NumVal(_)
NumVal(cs) == IF cs = <<>> THEN 0
              ELSE 10 * NumVal(SubSeq(cs, 1, Len(cs) - 1)) + DigitVal(cs[Len(cs)])

\* A property key is an array index when it is the canonical decimal string
\* of an integer in 0 .. 2^32 - 2; every such string of at most 9 digits is,
\* and the names used here are shorter.
IsArrayIndex(n) ==
    LET cs == NameChars[n] IN
    /\ \A i \in 1..Len(cs) : cs[i] \in Digits
    /\ (Len(cs) > 1 => cs[1] # "0")
    /\ Len(cs) <= 9

\* Values thrown by a callback, or rejection reasons.
ErrUndefined == [type |-> "undefined", stack |-> "", text |-> ""]
ErrNative == [type |-> "Error", stack |-> "at boom", text |-> "boom"]
ErrNoStack == [type |-> "Error", stack |-> "", text |-> "boom"]
ErrString == [type |-> "string", stack |-> "", text |-> "boom"]
ErrObject == [type |-> "object", stack |-> "", text |-> "{code: 1}"]
ErrNumber == [type |-> "number", stack |-> "", text |-> "42"]
\* const o = {}; o.self = o: an object JSON.stringify cannot serialise.
ErrCircular == [type |-> "object", stack |-> "", text |-> "circular"]
Errors == {ErrUndefined, ErrNative, ErrNoStack, ErrString, ErrObject, ErrNumber, ErrCircular}

\* What the callbacks of a whole run throw: an Error, as expect() does, or
\* an object that refers to itself.
RunErrors == {ErrNative, ErrCircular}

\* isTruthy of @fsnjs/truthy, on the values used here.
IsTruthy(v) == v.type # "undefined"

\* Values a returned observable emits: a number, an object with a name but no
\* passed, and a well-formed result.
NumberValue == [type |-> "number", name |-> Missing, passed |-> Missing,
                errorStr |-> Absent, ref |-> "none"]
PartialValue == [type |-> "object", name |-> "custom", passed |-> Missing,
                 errorStr |-> Absent, ref |-> "none"]
CustomResult == [type |-> "object", name |-> "custom", passed |-> Check,
                 errorStr |-> Absent, ref |-> "none"]
EmitValues == {NumberValue, PartialValue, CustomResult}

\* What the observables of a whole run emit.
RunValues == {NumberValue, CustomResult}

\* A result object of the test's own making: it passes and has an errorStr.
DetailResult == [type |-> "object", name |-> "custom", passed |-> Check,
                 errorStr |-> <<<<"text", "custom">>>>, ref |-> "none"]

\* What the observables emit in the runs that look at the error detail.
DetailValues == {NumberValue, DetailResult}

\* ------------------------------------------------------- execute.ts
IsExecResult(val) ==
    /\ IsTruthy(val)
    /\ val.type = "object"
    /\ val.name # Missing
    /\ val.passed # Missing

\* JSON.stringify(error, null, 4) throws a TypeError on a circular structure.
JsonStringifyThrows(error) == error.text = "circular"

\* What printErrorDetails gives when JSON.stringify throws: no string, the
\* TypeError leaves the function.
Thrown == <<<<"TypeError", "circular">>>>

\* The lines of the string printErrorDetails returns.
PrintErrorDetails(name, error) ==
    LET err == <<<<"failed", name>>>> IN
    IF ~IsTruthy(error) THEN err \o <<<<"unknown", "">>>>
    ELSE IF error.type = "Error"
         THEN IF error.stack # "" THEN err \o <<<<"details", "">>, <<"stack", error.stack>>>>
              ELSE err
    ELSE IF error.type = "string" THEN err \o <<<<"text", error.text>>>>
    ELSE IF error.type = "object"
         THEN IF JsonStringifyThrows(error) THEN Thrown
              ELSE err \o <<<<"noparse", "">>, <<"json", error.text>>>>
    ELSE err \o <<<<"unknown", "">>>>

\* const pass / const fail of one executeJustCallback call; ref marks the
\* call's fail object, which the observable branch hands out more than once.
PassResult(name) == [type |-> "object", name |-> name, passed |-> Check,
                     errorStr |-> Absent, ref |-> "none"]
FailResult(name) == [type |-> "object", name |-> name, passed |-> Cross,
                     errorStr |-> Absent, ref |-> "fail"]

\* What calling a callback does: it returns a value that is neither a promise
\* nor an observable, throws, returns a promise or returns an observable.
SyncOutcomes(E) == {[t |-> "return", e |-> ErrUndefined]} \cup {[t |-> "throw", e |-> e] : e \in E}
Outcomes(E) == SyncOutcomes(E) \cup {[t |-> "promise", e |-> ErrUndefined],
                                    [t |-> "observable", e |-> ErrUndefined]}

\* No result: the handler was left by the TypeError of printErrorDetails.
Raise == [type |-> "raise", name |-> Missing, passed |-> Missing,
          errorStr |-> Absent, ref |-> "none"]

\* As FailWith, with the errorStr assigned to pass and pass handed on.
FailWithPass(name, error) ==
    IF PrintErrorDetails(name, error) = Thrown THEN Raise
    ELSE [PassResult(name) EXCEPT !.errorStr = PrintErrorDetails(name, error)]

\* fail.errorStr = printErrorDetails(name, error), then fail is handed on.
FailWith(name, error) ==
    IF PrintErrorDetails(name, error) = Thrown THEN Raise
    ELSE [FailResult(name) EXCEPT !.errorStr = PrintErrorDetails(name, error)]

\* The catch block: fail.errorStr = printErrorDetails(name, e); of(fail).
CatchThrow(name, e) == FailWith(name, e)

\* The promise's then handler emits pass.
PromiseThen(name) == PassResult(name)

\* The promise's catch handler emits fail with the rendered reason.
PromiseCatch(name, reason) == FailWith(name, reason)

\* catchError of the observable branch: of(fail) with the rendered error.
ObservableCatchError(name, error) == FailWith(name, error)

\* map of the observable branch.
ObservableMap(name, value) == IF IsExecResult(value) THEN value ELSE FailResult(name)

\* executeJustCallback(name, callback) when calling callback does outcome:
\* the observable it returns, or kind "throw" when the call throws.
ExecuteJustCallback(name, callback, outcome) ==
    IF callback = Undefined THEN [kind |-> "of", result |-> PassResult(name)]
    ELSE IF outcome.t = "throw"
         THEN IF CatchThrow(name, outcome.e) = Raise
              THEN [kind |-> "throw", result |-> Raise]
              ELSE [kind |-> "of", result |-> CatchThrow(name, outcome.e)]
    ELSE IF outcome.t = "promise" THEN [kind |-> "promise", result |-> PassResult(name)]
    ELSE IF outcome.t = "observable" THEN [kind |-> "observable", result |-> PassResult(name)]
    ELSE [kind |-> "of", result |-> PassResult(name)]

\* ------------------------------------------------------- fsntest.ts: registry
\* tests[name] = fn on the record tests, kept in property creation order.
SetTest(t, name, fn) ==
    IF \E i \in 1..Len(t) : t[i].name = name
    THEN [i \in 1..Len(t) |-> IF t[i].name = name THEN [name |-> name, fn |-> fn] ELSE t[i]]
    ELSE Append(t, [name |-> name, fn |-> fn])

RECURSIVE AscendingIndex(_, _)
AscendingIndex(t, S) ==
    IF S = {} THEN <<>>
    ELSE LET i == CHOOSE i \in S : \A j \in S :
                      NumVal(NameChars[t[i].name]) <= NumVal(NameChars[t[j].name])
         IN <<t[i]>> \o AscendingIndex(t, S \ {i})

\* Object.entries(tests): array-index keys in ascending numeric order, then
\* the other keys in creation order.
ObjectEntries(t) ==
    AscendingIndex(t, {i \in 1..Len(t) : IsArrayIndex(t[i].name)})
    \o SelectSeq(t, LAMBDA x : ~IsArrayIndex(x.name))

\* ------------------------------------------------------- fsntest.ts: state
VARIABLES
    tests,          \* const tests, in property creation order
    beforeAllFn, beforeEachFn, afterAllFn, afterEachFn,
    phase,          \* "idle", "declaring" (inside testDef), "running"; "exec": see ExecCall
    entries,        \* the arguments of of(...Object.entries(tests))
    todo,           \* calls still to be made by the running task
    src,            \* per callback kind: the observable executeJustCallback returned
    cm,             \* the five concatMap operators
    cur,            \* values the active inner observables close over
    acc,            \* the array scan pushes to
    hasLast,        \* last() has seen a value
    printed,        \* times the summary table was printed
    table,          \* rows of the last printed table
    uncaught,       \* the error nobody handled and that ended the run, or "none"
    emits,          \* observables returned so far, and values they emitted
    calls,          \* per callback kind: times the callback was called
    started,        \* the test entries whose callback was called, in order
    itCalls,        \* the names passed to it(), in order
    hookCalls,      \* the hook setters called, in order
    invoked,        \* the callback kind called by the step just taken
    lastExec,       \* what the step just taken called or produced
    describes,      \* per describe() call so far: the number of it() calls made before it
    declared,       \* per testDef() that returned: the number of hook setter calls so far
    nodeProc,       \* bin.js: let nodeProc, TRUE once assigned
    lookups,        \* bin.js: calls of resolveOutFile still awaited
    spawns,         \* bin.js: times spawn('node', ...) was called
    tsc,            \* bin.js: the tsc child process: "running", "exited"; "ended": see LookupRejects
    chunks,         \* bin.js: the chunks the next handler was called with, in order
    expected,       \* expect.ts: the argument of expect(expected)
    clock,          \* describe: start and the later new Date(), as ms since midnight
    time            \* describe: the string time

vars == <<tests, beforeAllFn, beforeEachFn, afterAllFn, afterEachFn, phase, entries,
          todo, src, cm, cur, acc, hasLast, printed, table, uncaught, emits, calls,
          started, itCalls, hookCalls, invoked, lastExec, describes, declared, nodeProc,
          lookups,
          spawns, tsc, chunks, expected, clock, time>>

\* The state of the command line handler, of expect and of the timing.
other == <<nodeProc, lookups, spawns, tsc, chunks, expected, clock, time>>

registry == <<tests, beforeAllFn, beforeEachFn, afterAllFn, afterEachFn, itCalls, hookCalls>>

Slots == {"beforeAll", "beforeEach", "test", "afterEach", "afterAll"}

\* B: concatMap(() => executeTests); C: concatMap of afterAll;
\* 1: concatMap of beforeEach; 2: concatMap of the test; 3: concatMap of afterEach.
Cms == {"B", "C", "1", "2", "3"}

NoValue == [type |-> "none"]
NoEntry == [name |-> "", fn |-> Undefined]
NoError == ErrUndefined
NoExec == [slot |-> "none", cause |-> "none", fn |-> Undefined, e |-> NoError, v |-> NoValue,
           result |-> NoValue, count |-> 0, open |-> FALSE]
FreshCm == [active |-> FALSE, buf |-> <<>>, done |-> FALSE, closed |-> FALSE]
IdleSrc == [st |-> "none", n |-> 0]
NoClock == <<>>
NoTime == <<>>

Op(op, at, v) == [op |-> op, at |-> at, v |-> v]

\* fsntest.ts when the module is loaded.
InitRunner ==
    /\ tests = <<>>
    /\ beforeAllFn = Undefined /\ beforeEachFn = Undefined
    /\ afterAllFn = Undefined /\ afterEachFn = Undefined
    /\ phase = "idle"
    /\ entries = <<>>
    /\ todo = <<>>
    /\ src = [s \in Slots |-> IdleSrc]
    /\ cm = [c \in Cms |-> FreshCm]
    /\ cur = [test |-> NoEntry, body |-> NoEntry, result |-> NoValue]
    /\ acc = <<>>
    /\ hasLast = FALSE
    /\ printed = 0
    /\ table = <<>>
    /\ uncaught = "none"
    /\ emits = [values |-> 0, observables |-> 0]
    /\ calls = [s \in Slots |-> 0]
    /\ started = <<>>
    /\ itCalls = <<>>
    /\ hookCalls = <<>>
    /\ invoked = "none"
    /\ lastExec = NoExec
    /\ describes = <<>>
    /\ declared = <<>>

\* bin.js when the handler has subscribed to tsc's output.
InitCli ==
    /\ nodeProc = FALSE
    /\ lookups = 0
    /\ spawns = 0
    /\ tsc = "running"
    /\ chunks = <<>>

Init ==
    /\ InitRunner
    /\ InitCli
    /\ expected = NoValue
    /\ clock = NoClock
    /\ time = NoTime

run == <<entries, todo, src, cm, cur, acc, hasLast, printed, table, uncaught, emits,
         calls, started, invoked, lastExec>>

\* The step neither calls a callback nor produces a result.
Quiet == invoked' = "none" /\ lastExec' = NoExec

\* ------------------------------------------------------- registration
\* describe() up to the call of testDef.
Describe ==
    /\ phase = "idle"
    /\ phase' = "declaring"
    /\ describes' = Append(describes, Len(itCalls))
    /\ UNCHANGED <<registry, run, declared, other>>

\* As DescribeAgain, with a registry that is emptied for the new suite.
DescribeAgainEmpty ==
    /\ phase = "running" /\ uncaught = "none" /\ todo = <<>>
    /\ \A s \in Slots : src[s].st = "none"
    /\ Len(describes) < MaxDescribes
    /\ phase' = "declaring"
    /\ describes' = Append(describes, Len(itCalls))
    /\ tests' = <<>>
    /\ beforeAllFn' = Undefined /\ beforeEachFn' = Undefined
    /\ afterAllFn' = Undefined /\ afterEachFn' = Undefined
    /\ entries' = <<>>
    /\ cm' = [c \in Cms |-> FreshCm]
    /\ cur' = [test |-> NoEntry, body |-> NoEntry, result |-> NoValue]
    /\ acc' = <<>>
    /\ hasLast' = FALSE
    /\ Quiet
    /\ UNCHANGED <<itCalls, hookCalls, todo, src, printed, table, uncaught, emits, calls, started>>
    /\ UNCHANGED <<declared, other>>

\* describe() called again when the run of the describe() before it is over,
\* up to the call of testDef: the module's registry is what the calls so far
\* made it; the pipeline, its operators and the array of scan are made anew
\* by each call.
DescribeAgain ==
    /\ phase = "running" /\ uncaught = "none" /\ todo = <<>>
    /\ \A s \in Slots : src[s].st = "none"
    /\ Len(describes) < MaxDescribes
    /\ phase' = "declaring"
    /\ describes' = Append(describes, Len(itCalls))
    /\ entries' = <<>>
    /\ cm' = [c \in Cms |-> FreshCm]
    /\ cur' = [test |-> NoEntry, body |-> NoEntry, result |-> NoValue]
    /\ acc' = <<>>
    /\ hasLast' = FALSE
    /\ Quiet
    /\ UNCHANGED <<registry, todo, src, printed, table, uncaught, emits, calls, started>>
    /\ UNCHANGED <<declared, other>>

\* it(testDescription, testExec); the k-th function passed to it() is k.
It(names, max) ==
    /\ phase = "declaring"
    /\ Len(itCalls) < max
    /\ \E name \in names :
          /\ tests' = SetTest(tests, name, Len(itCalls) + 1)
          /\ itCalls' = Append(itCalls, name)
    /\ UNCHANGED <<beforeAllFn, beforeEachFn, afterAllFn, afterEachFn, hookCalls, phase, run>>
    /\ UNCHANGED <<describes, declared, other>>

\* The k-th function passed to a hook setter is k.
HookCall(kind) ==
    /\ phase = "declaring"
    /\ Len(hookCalls) < MaxHooks
    /\ hookCalls' = Append(hookCalls, kind)

BeforeAll ==
    /\ HookCall("beforeAll")
    /\ beforeAllFn' = Len(hookCalls) + 1
    /\ UNCHANGED <<tests, beforeEachFn, afterAllFn, afterEachFn, itCalls, phase, run>>
    /\ UNCHANGED <<describes, declared, other>>

\* beforeEach(fn) that keeps the callback already registered.
BeforeEachKeep ==
    /\ HookCall("beforeEach")
    /\ beforeEachFn' = IF beforeEachFn = Undefined THEN Len(hookCalls) + 1 ELSE beforeEachFn
    /\ UNCHANGED <<tests, beforeAllFn, afterAllFn, afterEachFn, itCalls, phase, run>>
    /\ UNCHANGED <<describes, declared, other>>

BeforeEach ==
    /\ HookCall("beforeEach")
    /\ beforeEachFn' = Len(hookCalls) + 1
    /\ UNCHANGED <<tests, beforeAllFn, afterAllFn, afterEachFn, itCalls, phase, run>>
    /\ UNCHANGED <<describes, declared, other>>

AfterAll ==
    /\ HookCall("afterAll")
    /\ afterAllFn' = Len(hookCalls) + 1
    /\ UNCHANGED <<tests, beforeAllFn, beforeEachFn, afterEachFn, itCalls, phase, run>>
    /\ UNCHANGED <<describes, declared, other>>

AfterEach ==
    /\ HookCall("afterEach")
    /\ afterEachFn' = Len(hookCalls) + 1
    /\ UNCHANGED <<tests, beforeAllFn, beforeEachFn, afterAllFn, itCalls, phase, run>>
    /\ UNCHANGED <<describes, declared, other>>

\* A callback of the run calls a hook setter while it executes: nothing reads
\* the registry between the call of the callback and the next step of the
\* pipeline.  The function passed is again the number of the setter call.
LateHook(kind) ==
    /\ phase = "running"
    /\ uncaught = "none"
    /\ invoked # "none"
    /\ Len(hookCalls) < declared[Len(declared)] + MaxLate
    /\ hookCalls' = Append(hookCalls, kind)
    /\ beforeEachFn' = IF kind = "beforeEach" THEN Len(hookCalls) + 1 ELSE beforeEachFn
    /\ afterEachFn' = IF kind = "afterEach" THEN Len(hookCalls) + 1 ELSE afterEachFn
    /\ afterAllFn' = IF kind = "afterAll" THEN Len(hookCalls) + 1 ELSE afterAllFn
    /\ UNCHANGED <<tests, beforeAllFn, itCalls, phase, run>>
    /\ UNCHANGED <<describes, declared, other>>

\* A callback of the run calls it() while it executes.
LateIt(names) ==
    /\ phase = "running"
    /\ uncaught = "none"
    /\ invoked # "none"
    /\ Len(itCalls) < MaxItHooks + MaxLate
    /\ \E name \in names :
          /\ tests' = SetTest(tests, name, Len(itCalls) + 1)
          /\ itCalls' = Append(itCalls, name)
    /\ UNCHANGED <<beforeAllFn, beforeEachFn, afterAllFn, afterEachFn, hookCalls, phase, run>>
    /\ UNCHANGED <<describes, declared, other>>

\* ------------------------------------------------------- the pipeline
\* Where a result of the observable of slot s goes: beforeAll feeds B, the
\* beforeEach result is replaced by the test entry (map(() => test)), the
\* test's result feeds 3, the afterEach result is replaced by the timed test
\* result, the afterAll result by the summary.
EmitOps(s, r, c) ==
    CASE s = "beforeAll" -> <<Op("next", "B", NoValue)>>
      [] s = "beforeEach" -> <<Op("next", "2", c.test)>>
      [] s = "test" -> <<Op("next", "3", r)>>
      [] s = "afterEach" -> <<Op("push", "scan", NoValue)>>
      [] s = "afterAll" -> <<Op("print", "table", NoValue)>>

\* Where the completion of the observable of slot s goes.
DoneOps(s) ==
    CASE s = "beforeAll" -> <<Op("srcDone", "B", NoValue)>>
      [] s = "beforeEach" -> <<Op("innerDone", "1", NoValue)>>
      [] s = "test" -> <<Op("srcDone", "3", NoValue)>>
      [] s = "afterEach" -> <<Op("innerDone", "3", NoValue)>>
      [] s = "afterAll" -> <<Op("innerDone", "C", NoValue)>>

\* The name executeJustCallback was called with for slot s.
SlotName(s, c) == IF s = "test" THEN c.body.name ELSE s

OutcomesOf(fn, O) ==
    IF fn = Undefined THEN {[t |-> "return", e |-> ErrUndefined]}
    ELSE {o \in O : o.t = "observable" => emits.observables < MaxObs}

\* The subscriptions still open are closed when the pipeline is torn down.
Unsubscribed(sr) ==
    [s \in Slots |-> IF sr[s].st = "none" THEN sr[s] ELSE [sr[s] EXCEPT !.st = "unsubscribed"]]

\* executeJustCallback(name, fn) is called, calling fn, and the observable it
\* returns is subscribed to.  When the call throws, the error passes through
\* the operators to the subscriber of describe, which has no error handler
\* (or, for beforeAll, rejects the promise describe returns): it is reported
\* as uncaught and the run is over.
Invoke(s, name, fn, o, c, rest) ==
    LET ob == ExecuteJustCallback(name, fn, o)
        kind == IF fn = Undefined THEN "undefined" ELSE o.t
    IN
    /\ src' = IF ob.kind = "throw" THEN Unsubscribed([src EXCEPT ![s] = IdleSrc])
              ELSE [src EXCEPT ![s] =
                      [st |-> CASE ob.kind = "of" -> "none"
                                [] ob.kind = "promise" -> "promise"
                                [] ob.kind = "observable" -> "obs",
                       n |-> 0]]
    /\ uncaught' = IF ob.kind = "throw" THEN "TypeError" ELSE uncaught
    /\ calls' = IF fn # Undefined THEN [calls EXCEPT ![s] = @ + 1] ELSE calls
    /\ invoked' = IF fn # Undefined THEN s ELSE "none"
    /\ emits' = IF ob.kind = "observable" THEN [emits EXCEPT !.observables = @ + 1] ELSE emits
    /\ todo' = CASE ob.kind = "of" -> EmitOps(s, ob.result, c) \o DoneOps(s) \o rest
                  [] ob.kind = "promise" -> rest
                  [] ob.kind = "observable" -> <<Op("syncObs", s, NoValue)>> \o rest
                  [] ob.kind = "throw" -> <<>>
    /\ lastExec' = IF ob.kind \in {"of", "throw"}
                   THEN [slot |-> s, cause |-> kind, fn |-> fn, e |-> o.e, v |-> NoValue,
                         result |-> ob.result, count |-> 1, open |-> FALSE]
                   ELSE [NoExec EXCEPT !.slot = s, !.cause = "called", !.fn = fn]

\* describe() after testDef returned: the pipeline is built, beforeAll is
\* executed and the pipeline subscribed to.
Execute(O) ==
    /\ phase = "declaring"
    /\ phase' = "running"
    /\ entries' = ObjectEntries(tests)
    /\ \E o \in OutcomesOf(beforeAllFn, O) :
          Invoke("beforeAll", "beforeAll", beforeAllFn, o, cur, <<>>)
    /\ declared' = Append(declared, Len(hookCalls))
    /\ UNCHANGED <<registry, cm, cur, acc, hasLast, printed, table, started>>
    /\ UNCHANGED <<describes, other>>

\* mergeInternals' doInnerSub of concatMap c for the source value v: the
\* project function is called and its observable subscribed to.  cmb is cm
\* as the caller left it.
DoInnerSub(c, v, rest, cmb, O) ==
    \/ /\ c = "B"
       /\ cm' = [cmb EXCEPT !["B"].active = TRUE, !["1"] = FreshCm, !["2"] = FreshCm]
       /\ hasLast' = FALSE
       /\ todo' = <<Op("of", "1", [i |-> 1])>> \o rest
       /\ Quiet
       /\ UNCHANGED <<src, calls, cur, started, emits, uncaught>>
    \/ /\ c = "1"
       /\ cm' = [cmb EXCEPT !["1"].active = TRUE]
       /\ cur' = [cur EXCEPT !.test = v]
       /\ \E o \in OutcomesOf(beforeEachFn, O) :
             Invoke("beforeEach", "beforeEach", beforeEachFn, o, cur', rest)
       /\ UNCHANGED <<hasLast, started>>
    \/ /\ c = "2"
       /\ cm' = [cmb EXCEPT !["2"].active = TRUE, !["3"] = FreshCm]
       /\ cur' = [cur EXCEPT !.body = v]
       /\ started' = Append(started, v)
       /\ \E o \in OutcomesOf(v.fn, O) : Invoke("test", v.name, v.fn, o, cur', rest)
       /\ UNCHANGED hasLast
    \/ /\ c = "3"
       /\ cm' = [cmb EXCEPT !["3"].active = TRUE]
       /\ cur' = [cur EXCEPT !.result = v]
       /\ \E o \in OutcomesOf(afterEachFn, O) :
             Invoke("afterEach", "afterEach", afterEachFn, o, cur', rest)
       /\ UNCHANGED <<hasLast, started>>
    \/ /\ c = "C"
       /\ cm' = [cmb EXCEPT !["C"].active = TRUE]
       /\ \E o \in OutcomesOf(afterAllFn, O) :
             Invoke("afterAll", "afterAll", afterAllFn, o, cur, rest)
       /\ UNCHANGED <<cur, hasLast, started>>

\* mergeInternals' checkComplete of concatMap c.  When concatMap 2 completes,
\* scan completes and last() emits the last value it saw, or fails with
\* EmptyError, which reaches the subscriber of describe, which has no error
\* handler; the pipeline is then torn down.
CheckComplete(c, rest, cmb) ==
    IF cmb[c].done /\ cmb[c].buf = <<>> /\ ~cmb[c].active /\ ~cmb[c].closed
    THEN /\ cm' = [cmb EXCEPT ![c].closed = TRUE]
         /\ IF c = "2" /\ ~hasLast
            THEN /\ uncaught' = "EmptyError"
                 /\ todo' = <<>>
                 /\ src' = Unsubscribed(src)
            ELSE /\ todo' = (CASE c = "B" -> <<Op("srcDone", "C", NoValue)>>
                               [] c = "C" -> <<>>
                               [] c = "1" -> <<Op("srcDone", "2", NoValue)>>
                               [] c = "2" -> <<Op("next", "C", NoValue),
                                               Op("innerDone", "B", NoValue)>>
                               [] c = "3" -> <<Op("innerDone", "2", NoValue)>>)
                            \o rest
                 /\ UNCHANGED <<uncaught, src>>
    ELSE /\ cm' = cmb
         /\ todo' = rest
         /\ UNCHANGED <<uncaught, src>>

Running == phase = "running" /\ uncaught = "none" /\ todo # <<>>

Busy == phase \in {"running", "exec"} /\ uncaught = "none" /\ todo # <<>>

\* As OuterNext, with mergeMap in the place of the concatMap of the test:
\* a value that arrives while a test is active is not buffered.
OuterNextMerge(O) ==
    /\ Running /\ Head(todo).op = "next"
    /\ LET c == Head(todo).at
           v == Head(todo).v
       IN IF cm[c].active /\ c # "2"
          THEN /\ cm' = [cm EXCEPT ![c].buf = Append(@, v)]
               /\ todo' = Tail(todo)
               /\ Quiet
               /\ UNCHANGED <<src, calls, cur, started, hasLast, emits, uncaught>>
          ELSE DoInnerSub(c, v, Tail(todo), cm, O)
    /\ UNCHANGED <<registry, phase, entries, acc, printed, table>>
    /\ UNCHANGED <<describes, declared, other>>

\* mergeInternals' outerNext: a source value reaches concatMap c.
OuterNext(O) ==
    /\ Running /\ Head(todo).op = "next"
    /\ LET c == Head(todo).at
           v == Head(todo).v
       IN IF cm[c].active
          THEN /\ cm' = [cm EXCEPT ![c].buf = Append(@, v)]
               /\ todo' = Tail(todo)
               /\ Quiet
               /\ UNCHANGED <<src, calls, cur, started, hasLast, emits, uncaught>>
          ELSE DoInnerSub(c, v, Tail(todo), cm, O)
    /\ UNCHANGED <<registry, phase, entries, acc, printed, table>>
    /\ UNCHANGED <<describes, declared, other>>

\* The source of concatMap c completes.
SrcDone ==
    /\ Running /\ Head(todo).op = "srcDone"
    /\ LET c == Head(todo).at IN
       CheckComplete(c, Tail(todo), [cm EXCEPT ![c].done = TRUE])
    /\ Quiet
    /\ UNCHANGED <<registry, phase, entries, cur, acc, hasLast, printed, table,
                   emits, calls, started>>
    /\ UNCHANGED <<describes, declared, other>>

\* The inner observable of concatMap c completes: its finalizer takes the
\* next buffered value, if any.
InnerDone(O) ==
    /\ Running /\ Head(todo).op = "innerDone"
    /\ LET c == Head(todo).at
           cmb == [cm EXCEPT ![c].active = FALSE]
       IN IF cm[c].buf # <<>>
          THEN /\ DoInnerSub(c, Head(cm[c].buf), <<Op("loop", c, NoValue)>> \o Tail(todo),
                             [cmb EXCEPT ![c].buf = Tail(@)], O)
          ELSE /\ CheckComplete(c, Tail(todo), cmb)
               /\ Quiet
               /\ UNCHANGED <<calls, cur, started, hasLast, emits>>
    /\ UNCHANGED <<registry, phase, entries, acc, printed, table>>
    /\ UNCHANGED <<describes, declared, other>>

\* The finalizer's loop, back from doInnerSub:
\* while (buffer.length && active < concurrent), then checkComplete.
Loop(O) ==
    /\ Running /\ Head(todo).op = "loop"
    /\ LET c == Head(todo).at IN
       IF cm[c].buf # <<>> /\ ~cm[c].active
       THEN DoInnerSub(c, Head(cm[c].buf), todo, [cm EXCEPT ![c].buf = Tail(@)], O)
       ELSE /\ CheckComplete(c, Tail(todo), cm)
            /\ Quiet
            /\ UNCHANGED <<calls, cur, started, hasLast, emits>>
    /\ UNCHANGED <<registry, phase, entries, acc, printed, table>>
    /\ UNCHANGED <<describes, declared, other>>

\* of(...Object.entries(tests)) emits its arguments and completes.
OfLoop ==
    /\ Running /\ Head(todo).op = "of"
    /\ LET i == Head(todo).v.i IN
       todo' = (IF i <= Len(entries)
                THEN <<Op("next", "1", entries[i]), Op("of", "1", [i |-> i + 1])>>
                ELSE <<Op("srcDone", "1", NoValue)>>) \o Tail(todo)
    /\ Quiet
    /\ UNCHANGED <<registry, phase, entries, src, cm, cur, acc, hasLast, printed, table,
                   uncaught, emits, calls, started>>
    /\ UNCHANGED <<describes, declared, other>>

\* afterEach emitted: map(() => ({...testResult, timing})), then scan pushes
\* the copy and last() remembers the array.
Push ==
    /\ Running /\ Head(todo).op = "push"
    /\ acc' = Append(acc, [cur.result EXCEPT !.ref = "none"])
    /\ hasLast' = TRUE
    /\ todo' = Tail(todo)
    /\ Quiet
    /\ UNCHANGED <<registry, phase, entries, src, cm, cur, printed, table, uncaught,
                   emits, calls, started>>
    /\ UNCHANGED <<describes, declared, other>>

\* The subscriber of describe: the summary table is printed.
PrintTable ==
    /\ Running /\ Head(todo).op = "print"
    /\ printed' = printed + 1
    /\ table' = [i \in 1..Len(acc) |-> [name |-> acc[i].name, passed |-> acc[i].passed]]
    /\ todo' = Tail(todo)
    /\ Quiet
    /\ UNCHANGED <<registry, phase, entries, src, cm, cur, acc, hasLast, uncaught,
                   emits, calls, started>>
    /\ UNCHANGED <<describes, declared, other>>

\* ------------------------------------------------------- returned observables
\* The observable a callback returned emits v.
ObsNext(s, v, again, rest) ==
    LET r == ObservableMap(SlotName(s, cur), v) IN
    /\ emits.values < MaxEmit
    /\ emits' = [emits EXCEPT !.values = @ + 1]
    /\ src' = [src EXCEPT ![s].n = @ + 1]
    /\ todo' = EmitOps(s, r, cur) \o again \o rest
    /\ lastExec' = [slot |-> s, cause |-> "emit", fn |-> Undefined, e |-> NoError, v |-> v, result |-> r,
                    count |-> src[s].n + 1, open |-> TRUE]
    /\ UNCHANGED <<cm, cur, uncaught>>

\* The observable a callback returned completes.
ObsComplete(s, rest) ==
    /\ src' = [src EXCEPT ![s] = IdleSrc]
    /\ todo' = DoneOps(s) \o rest
    /\ lastExec' = [slot |-> s, cause |-> "complete", fn |-> Undefined, e |-> NoError, v |-> NoValue,
                    result |-> NoValue, count |-> src[s].n, open |-> FALSE]
    /\ UNCHANGED <<cm, cur, emits, uncaught>>

\* The observable a callback returned errors: catchError assigns
\* fail.errorStr and emits fail.  Results of the test that are this fail
\* object and still wait in concatMap 3 show the assignment.  When the
\* selector throws, the error goes down the pipeline and is uncaught.
ObsError(s, e, rest) ==
    LET r == ObservableCatchError(SlotName(s, cur), e)
        seen(x) == IF x.ref = "fail" /\ r # Raise THEN [x EXCEPT !.errorStr = r.errorStr] ELSE x
    IN
    /\ src' = IF r = Raise THEN Unsubscribed([src EXCEPT ![s] = IdleSrc])
              ELSE [src EXCEPT ![s] = IdleSrc]
    /\ uncaught' = IF r = Raise THEN "TypeError" ELSE uncaught
    /\ cm' = IF s = "test"
             THEN [cm EXCEPT !["3"].buf = [i \in 1..Len(@) |-> seen(@[i])]]
             ELSE cm
    /\ cur' = IF s = "test" /\ cm["3"].active
              THEN [cur EXCEPT !.result = seen(@)]
              ELSE cur
    /\ todo' = IF r = Raise THEN <<>> ELSE EmitOps(s, r, cur) \o DoneOps(s) \o rest
    /\ lastExec' = [slot |-> s, cause |-> "error", fn |-> Undefined, e |-> e, v |-> NoValue, result |-> r,
                    count |-> src[s].n + 1, open |-> FALSE]
    /\ UNCHANGED emits

\* subscribe() of a returned observable: it may emit, complete or error
\* before subscribe returns, or return with the subscription open.
SyncObs(E, V) ==
    /\ Busy /\ Head(todo).op = "syncObs"
    /\ LET s == Head(todo).at IN
       \/ \E v \in V : ObsNext(s, v, <<Head(todo)>>, Tail(todo))
       \/ ObsComplete(s, Tail(todo))
       \/ \E e \in E : ObsError(s, e, Tail(todo))
       \/ /\ todo' = Tail(todo)
          /\ lastExec' = NoExec
          /\ UNCHANGED <<src, cm, cur, emits, uncaught>>
    /\ invoked' = "none"
    /\ UNCHANGED <<registry, phase, entries, acc, hasLast, printed, table, calls, started>>
    /\ UNCHANGED <<describes, declared, other>>

Idle == phase \in {"running", "exec"} /\ uncaught = "none" /\ todo = <<>>

\* A later task: an open subscription delivers an event.
ObsEvent(s, E, V) ==
    /\ Idle /\ src[s].st = "obs"
    /\ \/ \E v \in V : ObsNext(s, v, <<>>, <<>>)
       \/ ObsComplete(s, <<>>)
       \/ \E e \in E : ObsError(s, e, <<>>)
    /\ invoked' = "none"
    /\ UNCHANGED <<registry, phase, entries, acc, hasLast, printed, table, calls, started>>
    /\ UNCHANGED <<describes, declared, other>>

\* A later task: the promise a callback returned settles and its then or
\* catch handler runs.  When the catch handler throws, the subscriber is never
\* told and the rejection of the promise catch() returned is unhandled, which
\* ends the process.
PromiseSettle(s, E) ==
    /\ Idle /\ src[s].st = "promise"
    /\ \E how \in {[t |-> "resolve", e |-> NoError]} \cup {[t |-> "reject", e |-> e] : e \in E} :
          LET r == IF how.t = "resolve" THEN PromiseThen(SlotName(s, cur))
                   ELSE PromiseCatch(SlotName(s, cur), how.e)
          IN /\ src' = IF r = Raise THEN Unsubscribed([src EXCEPT ![s] = IdleSrc])
                       ELSE [src EXCEPT ![s] = IdleSrc]
             /\ uncaught' = IF r = Raise THEN "TypeError" ELSE uncaught
             /\ todo' = IF r = Raise THEN <<>> ELSE EmitOps(s, r, cur) \o DoneOps(s)
             /\ lastExec' = [slot |-> s, cause |-> how.t, fn |-> Undefined, e |-> how.e, v |-> NoValue,
                             result |-> r, count |-> 1, open |-> FALSE]
    /\ invoked' = "none"
    /\ UNCHANGED <<registry, phase, entries, cm, cur, acc, hasLast, printed, table,
                   emits, calls, started>>
    /\ UNCHANGED <<describes, declared, other>>

\* ------------------------------------------------------- one call of executeJustCallback
\* executeJustCallback(name, fn) is called on its own and subscribed to.
ExecCall ==
    /\ phase = "idle"
    /\ phase' = "exec"
    /\ \E name \in TestNames \cup Slots, fn \in {Undefined, 1} :
          \E o \in OutcomesOf(fn, Outcomes(Errors)) :
             /\ cur' = [cur EXCEPT !.body = [name |-> name, fn |-> fn]]
             /\ Invoke("test", name, fn, o, cur', <<>>)
    /\ UNCHANGED <<registry, entries, cm, acc, hasLast, printed, table, started>>
    /\ UNCHANGED <<describes, declared, other>>

\* The subscriber receives a result and keeps it in acc; earlier results that
\* are the call's fail object show an errorStr assigned since.
ExecNext ==
    /\ phase = "exec" /\ todo # <<>> /\ Head(todo).op = "next"
    /\ LET r == Head(todo).v
           seen(x) == IF x.ref = "fail" /\ r.ref = "fail" THEN r ELSE x
       IN acc' = Append([i \in 1..Len(acc) |-> seen(acc[i])], r)
    /\ todo' = Tail(todo)
    /\ UNCHANGED <<registry, phase, entries, src, cm, cur, hasLast, printed, table,
                   uncaught, emits, calls, started, invoked, lastExec>>
    /\ UNCHANGED <<describes, declared, other>>

\* The subscriber is told that the observable completed.
ExecDone ==
    /\ phase = "exec" /\ todo # <<>> /\ Head(todo).op = "srcDone"
    /\ todo' = Tail(todo)
    /\ UNCHANGED <<registry, phase, entries, src, cm, cur, acc, hasLast, printed, table,
                   uncaught, emits, calls, started, invoked, lastExec>>
    /\ UNCHANGED <<describes, declared, other>>

NextExec ==
    \/ ExecCall
    \/ ExecNext
    \/ ExecDone
    \/ SyncObs(Errors, EmitValues)
    \/ ObsEvent("test", Errors, EmitValues)
    \/ PromiseSettle("test", Errors)

SpecExec == Init /\ [][NextExec]_vars

\* ------------------------------------------------------- expect.ts
\* The arguments of expect(): functions that throw an error or return, and
\* values that are no functions.
Expecteds ==
    {[type |-> "function", does |-> "throw", e |-> e] : e \in Errors}
    \cup {[type |-> "function", does |-> "return", e |-> ErrUndefined]}
    \cup {[type |-> t, does |-> "none", e |-> ErrUndefined] : t \in {"undefined", "number", "object"}}

ReturnsTrue == [t |-> "return", e |-> ErrUndefined]

\* throw new Error(...): a native error with a stack.
ThrowsError == [t |-> "throw", e |-> ErrNative]

\* The try block of toThrow: expected() is called; when it returns, the
\* block throws the error that says so.
ToThrowTry(x) ==
    IF x.does = "throw" THEN [t |-> "throw", e |-> x.e]
    ELSE ThrowsError

\* catch (e) { return true }
ToThrowCatch(thrown) == ReturnsTrue

\* expect(expected).toThrow(): what the call does.
ToThrow(x) ==
    IF x.type # "function" THEN ThrowsError
    ELSE IF ToThrowTry(x).t = "throw" THEN ToThrowCatch(ToThrowTry(x))
    ELSE ToThrowTry(x)

\* executeJustCallback(name, () => expect(expected).toThrow()) is called and
\* subscribed to.
ExpectCall ==
    /\ phase = "idle"
    /\ phase' = "exec"
    /\ \E name \in TestNames, x \in Expecteds :
          /\ expected' = x
          /\ cur' = [cur EXCEPT !.body = [name |-> name, fn |-> 1]]
          /\ Invoke("test", name, 1, ToThrow(x), cur', <<>>)
    /\ UNCHANGED <<registry, entries, cm, acc, hasLast, printed, table, started>>
    /\ UNCHANGED <<describes, declared, nodeProc, lookups, spawns, tsc, chunks, clock, time>>

NextExpect ==
    \/ ExpectCall
    \/ ExecNext
    \/ ExecDone

SpecExpect == Init /\ [][NextExpect]_vars

\* ------------------------------------------------------- bin.js
\* A chunk of tsc's output, by what the tests of formatTscMessage look for:
\* "error TS", one of the two banners, "Found 0 errors", and "Found n errors"
\* for a number n other than 0.  tsc writes a banner between the results of
\* two compilations, so a chunk with both results has a banner.
Chunks ==
    {data \in [errorTS : BOOLEAN, banner : BOOLEAN, found0 : BOOLEAN, foundMore : BOOLEAN] :
        data.found0 /\ data.foundMore => data.banner}

\* As FormatTscMessage, with the third test made with the pattern of the
\* fourth.
FormatTscMessageAny(data) ==
    IF data.errorTS THEN FALSE
    ELSE IF data.banner THEN FALSE
    ELSE IF data.found0 \/ data.foundMore THEN TRUE
    ELSE FALSE

\* formatTscMessage(data); /Found \d{1,} errors/i matches "Found 0 errors"
\* as well.
FormatTscMessage(data) ==
    IF data.errorTS THEN FALSE
    ELSE IF data.banner THEN FALSE
    ELSE IF data.found0 THEN TRUE
    ELSE IF data.found0 \/ data.foundMore THEN FALSE
    ELSE FALSE

\* tsc writes a chunk and the next handler runs up to its await (or to its
\* end): when the chunk is a success and nodeProc is not assigned, it calls
\* resolveOutFile and waits.
TscData ==
    /\ tsc = "running"
    /\ Len(chunks) < MaxChunks
    /\ \E data \in Chunks :
          /\ chunks' = Append(chunks, data)
          /\ lookups' = IF FormatTscMessage(data) /\ ~nodeProc THEN lookups + 1 ELSE lookups
    /\ UNCHANGED <<registry, phase, run, describes, declared, nodeProc, spawns, tsc,
                   expected, clock, time>>

\* resolveOutFile found one file: the handler goes on after its await, spawns
\* node and assigns nodeProc.
LookupResolves ==
    /\ tsc # "ended"
    /\ lookups > 0
    /\ lookups' = lookups - 1
    /\ spawns' = spawns + 1
    /\ nodeProc' = TRUE
    /\ UNCHANGED <<registry, phase, run, describes, declared, tsc, chunks,
                   expected, clock, time>>

\* resolveOutFile found no file or several and throws: the promise of the
\* handler is rejected and nobody handles it, which ends the process or only
\* warns, by the version and the flags of node.
LookupRejects ==
    /\ tsc # "ended"
    /\ lookups > 0
    /\ \/ lookups' = lookups - 1 /\ tsc' = tsc
       \/ lookups' = 0 /\ tsc' = "ended"
    /\ UNCHANGED <<registry, phase, run, describes, declared, nodeProc, spawns, chunks,
                   expected, clock, time>>

\* tsc exits: the subject completes, nodeProc?.disconnect() is called and no
\* chunk follows.
TscExit ==
    /\ tsc = "running"
    /\ tsc' = "exited"
    /\ UNCHANGED <<registry, phase, run, describes, declared, nodeProc, lookups, spawns,
                   chunks, expected, clock, time>>

NextCli ==
    \/ TscData
    \/ LookupResolves
    \/ LookupRejects
    \/ TscExit

SpecCli == Init /\ [][NextCli]_vars

\* ------------------------------------------------------- the timing of a test
\* A Date: the day and the fields dateToMs reads.  The milliseconds used are
\* eighths of a second, which binary floating point holds exactly, so that
\* the sums and the difference computed below are exact as well; with other
\* values the difference can also be off by a rounding error.
Dates == [day : 0..MaxDay, hours : {0, 23}, minutes : {0, 59}, seconds : {0, 1, 59},
          milliseconds : {0, 125, 250, 500, 875}]

\* date1 is not later than date2.
NotLater(date1, date2) ==
    \/ date1.day < date2.day
    \/ /\ date1.day = date2.day
       /\ (date1.hours * 60 * 60 + date1.minutes * 60 + date1.seconds) * 1000 + date1.milliseconds
            <= (date2.hours * 60 * 60 + date2.minutes * 60 + date2.seconds) * 1000
                 + date2.milliseconds

\* dateToMs(date): seconds since midnight, here counted in thousandths.
DateToMs(date) ==
    LET seconds == date.hours * 60 * 60 + date.minutes * 60 + date.seconds
        ms == date.milliseconds
    IN seconds * 1000 + ms

DigitChar(n) == CASE n = 0 -> "0" [] n = 1 -> "1" [] n = 2 -> "2" [] n = 3 -> "3"
                  [] n = 4 -> "4" [] n = 5 -> "5" [] n = 6 -> "6" [] n = 7 -> "7"
                  [] n = 8 -> "8" [] n = 9 -> "9"

RECURSIVE DecimalDigits(_)
DecimalDigits(n) == IF n < 10 THEN <<DigitChar(n)>>
                    ELSE DecimalDigits(n \div 10) \o <<DigitChar(n % 10)>>

RECURSIVE StripZeros(_)
StripZeros(cs) == IF cs # <<>> /\ cs[Len(cs)] = "0" THEN StripZeros(SubSeq(cs, 1, Len(cs) - 1))
                  ELSE cs

\* `${n}` of the number n thousandths: the shortest decimal that reads back
\* as the number, without a point when it is whole.
NumberToString(n) ==
    LET a == IF n < 0 THEN 0 - n ELSE n
        sign == IF n < 0 THEN <<"-">> ELSE <<>>
        frac == <<DigitChar((a % 1000) \div 100), DigitChar((a % 100) \div 10), DigitChar(a % 10)>>
    IN sign \o DecimalDigits(a \div 1000)
            \o (IF a % 1000 = 0 THEN <<>> ELSE <<".">> \o StripZeros(frac))

\* str.split('.'), for a string with at most one point: the list of its parts.
SplitPoint(str) ==
    LET at == {i \in 1..Len(str) : str[i] = "."}
    IN IF at = {} THEN <<str>>
       ELSE LET i == CHOOSE i \in at : TRUE
            IN <<SubSeq(str, 1, i - 1), SubSeq(str, i + 1, Len(str))>>

\* decimal.slice(0, 3)
Slice3(cs) == SubSeq(cs, 1, IF Len(cs) < 3 THEN Len(cs) ELSE 3)

\* The string time the concatMap of the test computes from start and the
\* later new Date().
TimeOf(start, now) ==
    LET timing == DateToMs(now) - DateToMs(start)
        parts == SplitPoint(NumberToString(timing))
        whole == parts[1]
        decimal == IF Len(parts) < 2 THEN <<"0", "0", "0">> ELSE parts[2]
    IN IF timing # 0 THEN whole \o <<".">> \o Slice3(decimal)
       ELSE <<"0", ".", "0", "0", "0">>

\* A test started at one Date and gave its result at a later one.
InitTiming ==
    /\ InitRunner
    /\ InitCli
    /\ expected = NoValue
    /\ clock \in {c \in [start : Dates, end : Dates] : NotLater(c.start, c.end)}
    /\ time = NoTime

\* const start = new Date() was taken when the test was called; its result
\* arrives, new Date() is taken and time is computed.
Timing ==
    /\ time = NoTime
    /\ clock # NoClock
    /\ time' = TimeOf(clock.start, clock.end)
    /\ UNCHANGED <<registry, phase, run, describes, declared, nodeProc, lookups, spawns, tsc, chunks,
                   expected, clock>>

NextTiming ==
    \/ Timing

SpecTiming == InitTiming /\ [][NextTiming]_vars
Registration(names, max) ==
    \/ Describe
    \/ It(names, max)
    \/ BeforeAll
    \/ BeforeEach
    \/ AfterAll
    \/ AfterEach

\* A whole describe() run.
Next ==
    \/ Registration(RunNames, MaxIt)
    \/ Execute(Outcomes(RunErrors))
    \/ OuterNext(Outcomes(RunErrors))
    \/ SrcDone
    \/ InnerDone(Outcomes(RunErrors))
    \/ Loop(Outcomes(RunErrors))
    \/ OfLoop
    \/ Push
    \/ PrintTable
    \/ SyncObs(RunErrors, RunValues)
    \/ \E s \in Slots : ObsEvent(s, RunErrors, RunValues)
    \/ \E s \in Slots : PromiseSettle(s, RunErrors)

Spec == Init /\ [][Next]_vars

\* A describe() run whose callbacks all return or throw synchronously.
NextOrder ==
    \/ Registration(TestNames, MaxItOrder)
    \/ Execute(SyncOutcomes(RunErrors))
    \/ OuterNext(SyncOutcomes(RunErrors))
    \/ SrcDone
    \/ InnerDone(SyncOutcomes(RunErrors))
    \/ OfLoop
    \/ Push
    \/ PrintTable

SpecOrder == Init /\ [][NextOrder]_vars

\* A describe() run with few tests, for the hooks; every callback returns or
\* throws synchronously.
NextHooks ==
    \/ Registration(RunNames, MaxItHooks)
    \/ Execute(SyncOutcomes(RunErrors))
    \/ OuterNext(SyncOutcomes(RunErrors))
    \/ SrcDone
    \/ InnerDone(SyncOutcomes(RunErrors))
    \/ OfLoop
    \/ Push
    \/ PrintTable

SpecHooks == Init /\ [][NextHooks]_vars

\* describe() called more than once in a process; every callback returns or
\* throws synchronously.
NextAgain ==
    \/ Registration(RunNames, MaxIt)
    \/ DescribeAgain
    \/ Execute(SyncOutcomes({ErrNative}))
    \/ OuterNext(SyncOutcomes({ErrNative}))
    \/ SrcDone
    \/ InnerDone(SyncOutcomes({ErrNative}))
    \/ OfLoop
    \/ Push
    \/ PrintTable

SpecAgain == Init /\ [][NextAgain]_vars

\* A describe() run whose callbacks register hooks and tests while they run.
NextLate ==
    \/ Registration(RunNames, MaxItHooks)
    \/ Execute(SyncOutcomes(RunErrors))
    \/ OuterNext(SyncOutcomes(RunErrors))
    \/ SrcDone
    \/ InnerDone(SyncOutcomes(RunErrors))
    \/ OfLoop
    \/ Push
    \/ PrintTable
    \/ \E kind \in {"beforeEach", "afterEach", "afterAll"} : LateHook(kind)
    \/ LateIt(RunNames)

SpecLate == Init /\ [][NextLate]_vars

\* A describe() run whose test and hooks fail with a native error only and
\* whose observables may emit a result object of their own.
NextDetail ==
    \/ Registration(RunNames, MaxIt)
    \/ Execute(Outcomes({ErrNative}))
    \/ OuterNext(Outcomes({ErrNative}))
    \/ SrcDone
    \/ InnerDone(Outcomes({ErrNative}))
    \/ Loop(Outcomes({ErrNative}))
    \/ OfLoop
    \/ Push
    \/ PrintTable
    \/ SyncObs({ErrNative}, DetailValues)
    \/ \E s \in Slots : ObsEvent(s, {ErrNative}, DetailValues)
    \/ \E s \in Slots : PromiseSettle(s, {ErrNative})

SpecDetail == Init /\ [][NextDetail]_vars

\* ------------------------------------------------------- properties
\* The names passed to it(), each once, in the order of their first call.
FirstOrder ==
    LET firsts == SelectSeq([i \in 1..Len(itCalls) |-> i],
                            LAMBDA i : \A j \in 1..(i - 1) : itCalls[j] # itCalls[i])
    IN [k \in 1..Len(firsts) |-> itCalls[firsts[k]]]

\* N: the number of distinct names registered.
Registered == Len(FirstOrder)

StartedNames == [i \in 1..Len(started) |-> started[i].name]

TableNames == [i \in 1..Len(table) |-> table[i].name]

IsPrefix(a, b) == Len(a) <= Len(b) /\ SubSeq(b, 1, Len(a)) = a

\* describe's run has nothing left to do and nothing left to wait for.
RunOver == phase = "running" /\ todo = <<>> /\ \A s \in Slots : src[s].st = "none"

\* The step just taken turned an error of a callback into a result.
Failures == {"throw", "reject", "error"}

\* C1: whatever the test callbacks do (return, throw, promise, observable with
\* zero, one or several emissions), every test gives exactly one result and
\* the summary handed to the table has exactly N entries.  Stated for suites
\* without hooks.
C1_SummaryHasNEntries ==
    (printed > 0 /\ hookCalls = <<>>) => Len(table) = Registered

\* C2: for distinct names, digits-only names included, the test bodies are
\* invoked and their results listed in the order of the it() calls.
C2_RegistrationOrder ==
    Len(itCalls) = Registered =>
        /\ IsPrefix(StartedNames, FirstOrder)
        /\ (printed > 0 => TableNames = FirstOrder)

\* C3: an error thrown by a hook or test, a rejection or an error of the
\* observable it returned becomes a failing result with an error detail, does
\* not propagate, and the result is handed on like that of a success.
C3_FailureIsolation ==
    lastExec.cause \in Failures =>
        /\ lastExec.result.passed = Cross
        /\ lastExec.result.errorStr # Absent
        /\ uncaught = "none"
        /\ IsPrefix(EmitOps(lastExec.slot, lastExec.result, cur) \o DoneOps(lastExec.slot), todo)

\* C4: beforeEach of the next test is not invoked while the body or the
\* afterEach of an earlier test is still to settle or to start, also when
\* bodies return promises.
C4_NoOverlap ==
    (invoked = "beforeEach" /\ emits.observables = 0) =>
        /\ ~cm["2"].active
        /\ cm["2"].buf = <<>>
        /\ src["test"].st = "none"
        /\ src["afterEach"].st = "none"

\* C5: when a run is over, a registered beforeEach and a registered afterEach
\* were called N times each, a registered beforeAll and a registered afterAll
\* once each, N = 0 included.  Stated for runs no TypeError cut short and
\* whose callbacks return no observable.
C5_HookCounts ==
    (RunOver /\ uncaught # "TypeError" /\ emits.observables = 0) =>
        /\ (beforeAllFn # Undefined => calls["beforeAll"] = 1)
        /\ (beforeEachFn # Undefined => calls["beforeEach"] = Registered)
        /\ (afterEachFn # Undefined => calls["afterEach"] = Registered)
        /\ (afterAllFn # Undefined => calls["afterAll"] = 1)

\* C6: beforeEach and test bodies are invoked only after beforeAll was called
\* and gave its result, afterAll only when no beforeEach, test body or
\* afterEach is pending, and beforeAll and afterAll are called at most once in
\* a run.
C6_AllHooksOnce ==
    /\ invoked \in {"beforeEach", "test"} =>
          /\ (beforeAllFn # Undefined => calls["beforeAll"] >= 1)
          /\ src["beforeAll"].st # "promise"
          /\ (src["beforeAll"].st = "obs" => src["beforeAll"].n >= 1)
    /\ invoked = "afterAll" =>
          /\ src["beforeEach"].st = "none"
          /\ src["test"].st = "none"
          /\ src["afterEach"].st = "none"
    /\ calls["beforeAll"] <= 1
    /\ calls["afterAll"] <= 1

\* C7: of an observable returned by a callback, an error gives a failing
\* result, a completion without any emission a passing result, an emitted
\* value that is no well-formed result a passing result, and an emitted
\* well-formed result is handed on unchanged.
C7_ObservableResults ==
    /\ (lastExec.cause = "error" /\ lastExec.result # Raise) =>
          lastExec.result.passed = Cross
    /\ (lastExec.cause = "complete" /\ lastExec.count = 0) =>
          /\ todo # <<>>
          /\ Head(todo).op = "next"
          /\ Head(todo).v.passed = Check
    /\ (lastExec.cause = "emit" /\ ~IsExecResult(lastExec.v)) =>
          lastExec.result.passed = Check
    /\ (lastExec.cause = "emit" /\ IsExecResult(lastExec.v)) =>
          lastExec.result = lastExec.v

\* The error detail d shows the thrown value or rejection reason e.
Rendered(d, e) ==
    /\ d # Absent
    /\ d # Thrown
    /\ e.type = "Error" /\ e.stack # "" => \E i \in 1..Len(d) : d[i][2] = e.stack
    /\ e.type \in {"string", "object"} => \E i \in 1..Len(d) : d[i][2] = e.text

\* C8: executeJustCallback gives exactly one result: passing for an undefined
\* callback, for a callback that returns and for a promise that resolves;
\* failing with an error detail for a callback that throws and for a promise
\* that rejects, the detail showing the reason.
C8_ExactlyOneResult ==
    /\ lastExec.cause \in {"undefined", "return", "resolve"} =>
          lastExec.result = PassResult(cur.body.name)
    /\ lastExec.cause \in {"throw", "reject"} =>
          /\ lastExec.result.passed = Cross
          /\ Rendered(lastExec.result.errorStr, lastExec.e)
          /\ uncaught = "none"
    /\ (phase = "exec" /\ emits.observables = 0 /\ todo = <<>> /\ src["test"].st = "none") =>
          Len(acc) = 1

\* C9: a run in which every invoked callback settled prints the summary
\* exactly once, whatever N >= 0.  Stated for runs no TypeError cut short and
\* whose callbacks return no observable.
C9_DoneExactlyOnce ==
    (RunOver /\ uncaught # "TypeError" /\ emits.observables = 0) => printed = 1

\* The calls of it() that passed name.
CallsOf(name) == {i \in 1..Len(itCalls) : itCalls[i] = name}

\* C10: of a name passed to it() more than once, only the callback of the last
\* call runs, once, the summary has one entry for the name, and the entry is at
\* the place of the name's first registration.
C10_Reregistration ==
    printed > 0 =>
        \A k \in 1..Registered :
            LET name == FirstOrder[k]
                lastCall == CHOOSE i \in CallsOf(name) : \A j \in CallsOf(name) : j <= i
            IN Cardinality(CallsOf(name)) > 1 =>
                  /\ \A i \in 1..Len(started) : started[i].name = name => started[i].fn = lastCall
                  /\ Cardinality({i \in 1..Len(started) : started[i].name = name}) = 1
                  /\ Cardinality({i \in 1..Len(table) : table[i].name = name}) = 1
                  /\ Len(table) >= k /\ table[k].name = name

\* The four hook kinds.
HookKinds == {"beforeAll", "beforeEach", "afterAll", "afterEach"}

\* The function passed by the last call of the setter of kind, Undefined when
\* the setter was never called.
LastHookCall(kind) ==
    LET of == {i \in 1..Len(hookCalls) : hookCalls[i] = kind}
    IN IF of = {} THEN Undefined ELSE CHOOSE i \in of : \A j \in of : j <= i

\* The registry the it() calls alone give: every name once, in the order of
\* first registration, with the function of its last call.
TestsOfItCalls ==
    [k \in 1..Registered |->
        [name |-> FirstOrder[k],
         fn |-> CHOOSE i \in 1..Len(itCalls) :
                   /\ itCalls[i] = FirstOrder[k]
                   /\ \A j \in 1..Len(itCalls) : itCalls[j] = FirstOrder[k] => j <= i]]

\* C11: each hook slot holds the callback of the last registration of its
\* kind, whatever was registered for the other kinds, the test registry is
\* what the it() calls alone made it, and a hook invoked in the run is the
\* last one registered for its kind, never an earlier one.
C11_HookSlots ==
    /\ beforeAllFn = LastHookCall("beforeAll")
    /\ beforeEachFn = LastHookCall("beforeEach")
    /\ afterAllFn = LastHookCall("afterAll")
    /\ afterEachFn = LastHookCall("afterEach")
    /\ tests = TestsOfItCalls
    /\ (lastExec.slot \in HookKinds /\ lastExec.fn # Undefined) =>
          lastExec.fn = LastHookCall(lastExec.slot)
    /\ (invoked \in HookKinds) => lastExec.slot = invoked /\ lastExec.fn # Undefined

\* C11 happens: beforeEach was registered twice and the second callback runs.
C11_Witness ==
    /\ hookCalls = <<"beforeEach", "beforeEach">>
    /\ invoked = "beforeEach"
    /\ lastExec.fn = 2

\* The elapsed time from clock.start to clock.end, in thousandths of a second.
Elapsed ==
    (clock.end.day - clock.start.day) * 24 * 60 * 60 * 1000
    + DateToMs(clock.end) - DateToMs(clock.start)

\* C12: the timing string is the elapsed time in seconds with exactly three
\* decimal digits, "0.000" for no time elapsed, and is never negative when
\* start is not later than end.
C12_TimingFormat ==
    time # NoTime =>
        /\ time = DecimalDigits(Elapsed \div 1000)
                    \o <<".", DigitChar((Elapsed % 1000) \div 100),
                         DigitChar((Elapsed % 100) \div 10), DigitChar(Elapsed % 10)>>
        /\ time[1] # "-"

\* x passes and has an error detail.
PassingWithDetail(x) == x.passed = Check /\ x.errorStr # Absent

\* The results executeJustCallback has just handed on and the entries of the
\* summary so far.
ResultsNow ==
    (IF lastExec.result \in {NoValue, Raise} THEN {} ELSE {lastExec.result})
    \cup {acc[i] : i \in 1..Len(acc)}

\* C13 as stated: no passing result of executeJustCallback and no passing
\* summary entry has an error detail.
C13_DetailOnlyWhenFailing ==
    \A x \in ResultsNow : ~PassingWithDetail(x)

\* C13, amended: a passing result has an error detail only when it is the
\* object the callback's own observable emitted, which is handed on as it is;
\* the results executeJustCallback builds itself have an error detail only
\* when they fail, however often the same name is executed in a run.
C13_DetailOnlyWhenFailingOrEmitted ==
    /\ lastExec.result # NoValue /\ PassingWithDetail(lastExec.result) =>
          lastExec.cause = "emit" /\ lastExec.v = lastExec.result
    /\ \A i \in 1..Len(acc) : PassingWithDetail(acc[i]) => acc[i] \in DetailValues

\* afterEach is executed a second time and passes, after the first test
\* failed with an error detail.
C13_Witness ==
    /\ Len(acc) = 1
    /\ acc[1].passed = Cross
    /\ acc[1].errorStr # Absent
    /\ calls.afterEach = 2
    /\ lastExec.slot = "afterEach"
    /\ lastExec.result = PassResult("afterEach")

\* The callback of slot s has returned a promise or an observable that has
\* not settled.
InProgress(s) == src[s].st \in {"promise", "obs"}

\* C14: a test body is invoked only when the body of the test before it has
\* settled and every afterEach that follows that test's results has settled,
\* whatever the bodies return.
C14_OneBodyAtATime ==
    [][started' # started =>
          /\ ~InProgress("test")
          /\ ~InProgress("afterEach")
          /\ ~cm["3"].active
          /\ cm["3"].buf = <<>>]_vars

\* The second test, which returns a promise, is invoked after the first
\* test's observable emitted and its result is in the summary.
C14_Witness ==
    /\ Len(started) = 2
    /\ invoked = "test"
    /\ hookCalls = <<>>
    /\ emits.observables = 1
    /\ emits.values >= 1
    /\ src["test"].st = "promise"
    /\ Len(acc) >= 1

\* The hook of kind that was registered when the last testDef returned.
DeclaredHook(kind) ==
    LET of == {i \in 1..declared[Len(declared)] : hookCalls[i] = kind}
    IN IF of = {} THEN Undefined ELSE CHOOSE i \in of : \A j \in of : j <= i

\* C15: the test callbacks and the hook callbacks a run invokes are those
\* registered when testDef returned, whatever is registered while the run is
\* in progress.
C15_RegistryFixed ==
    phase = "running" =>
        /\ \A i \in 1..Len(started) : started[i] = entries[i]
        /\ lastExec.slot \in HookKinds /\ lastExec.cause \in {"undefined", "return", "throw"} =>
              lastExec.fn = DeclaredHook(lastExec.slot)

\* The names of the entries of a registry or of a list of entries.
NamesOf(t) == [i \in 1..Len(t) |-> t[i].name]

\* C16: nothing removes a test or clears a hook: after any number of
\* describe() calls the registry holds every name ever passed to it() and
\* the last callback passed to each hook setter, and a describe() call runs
\* every test registered so far, those of earlier calls included.
C16_RegistryKept ==
    /\ tests = TestsOfItCalls
    /\ \A kind \in HookKinds :
          (CASE kind = "beforeAll" -> beforeAllFn
             [] kind = "beforeEach" -> beforeEachFn
             [] kind = "afterAll" -> afterAllFn
             [] kind = "afterEach" -> afterEachFn) = LastHookCall(kind)
    /\ phase = "running" => entries = ObjectEntries(TestsOfItCalls)
    /\ phase = "running" /\ printed = Len(describes) =>
          /\ TableNames = NamesOf(ObjectEntries(TestsOfItCalls))
          /\ SubSeq(started, Len(started) - Len(entries) + 1, Len(started)) = entries
    /\ (phase = "running" /\ lastExec.slot \in HookKinds
            /\ lastExec.cause \in {"undefined", "return", "throw"}) =>
          lastExec.fn = LastHookCall(lastExec.slot)

\* The second describe() has run the test and the afterAll hook the first
\* one registered, and the test its own testDef registered.
C16_Witness ==
    /\ Len(describes) = 2
    /\ describes[2] = 1
    /\ Len(itCalls) = 2
    /\ Len(table) = 2
    /\ printed = 2
    /\ hookCalls = <<"afterAll">>
    /\ declared = <<1, 1>>
    /\ calls["afterAll"] = 2
    /\ calls["test"] = 3

\* C17: node is spawned at most once, whatever chunks arrive and whenever
\* the lookups of the output file end.
C17_SpawnAtMostOnce == spawns <= 1

\* formatTscMessage is to return true for data.
Successful(data) == data.found0 /\ ~data.errorTS /\ ~data.banner

\* C18: a chunk makes the handler look up the output file only when it has
\* "Found 0 errors" and neither "error TS" nor a banner, node is spawned only
\* at the end of such a lookup, and when node is spawned or about to be, a
\* chunk of that kind has arrived.
C18_SpawnAfterSuccess ==
    [][/\ lookups' > lookups =>
             /\ chunks' # chunks
             /\ Successful(chunks'[Len(chunks')])
       /\ spawns' # spawns =>
             /\ lookups > 0
             /\ lookups' = lookups - 1
             /\ spawns' = spawns + 1
       /\ lookups' + spawns' > 0 =>
             \E i \in 1..Len(chunks') : Successful(chunks'[i])
       /\ lookups' + spawns' <= Cardinality({i \in 1..Len(chunks') : Successful(chunks'[i])})]_vars

\* node was spawned after a chunk with errors and then a chunk with
\* "Found 0 errors".
C18_Witness ==
    /\ spawns = 1
    /\ Len(chunks) = 2
    /\ chunks[1].foundMore /\ chunks[1].errorTS /\ ~chunks[1].found0
    /\ Successful(chunks[2])

\* C19: a test body that asserts toThrow gives a passing result when the
\* function throws, and a failing result when the function returns without
\* throwing or when the argument of expect is not a function.
C19_ToThrow ==
    phase = "exec" /\ acc # <<>> =>
        /\ Len(acc) = 1
        /\ acc[1].passed = (IF expected.type = "function" /\ expected.does = "throw"
                            THEN Check ELSE Cross)

====
